---- MODULE Spec2Model ----
(***************************************************************************)
(* Model of handwashing.py: the Semmelweis clinics dashboard.              *)
(*                                                                         *)
(* The script loads an uploaded CSV (load_data), derives the year of each  *)
(* row, coerces the four count columns, computes the per-row death rates,  *)
(* then takes the year bounds, reads the year-range slider, filters the    *)
(* rows and computes the pooled totals and rates (safe_rate).              *)
(*                                                                         *)
(* Text is a sequence of one-character strings.  A float is a pair         *)
(* <<n, d>> in lowest terms with d >= 0: <<n, 1>> is the integer n,        *)
(* <<1, 0>> is inf, <<-1, 0>> is -inf and <<0, 0>> is NaN (which is also   *)
(* how pandas stores None in a column).  The model starts from the table   *)
(* that pd.read_csv returns; a cell is given by its text, str(cell).       *)
(***************************************************************************)
EXTENDS Integers, Sequences, FiniteSets, TLC

VARIABLES uploaded, pc, error, df, min_year, max_year, year_range, filtered,
          births_c1, deaths_c1, rate_c1, births_c2, deaths_c2, rate_c2

vars == <<uploaded, pc, error, df, min_year, max_year, year_range, filtered,
          births_c1, deaths_c1, rate_c1, births_c2, deaths_c2, rate_c2>>

\* Largest number of data rows of an uploaded table.
MaxRows == 3

-----------------------------------------------------------------------------
\* Floats

NaN == <<0, 0>>

Sign(x) == IF x > 0 THEN 1 ELSE IF x < 0 THEN -1 ELSE 0

Abs(x) == IF x < 0 THEN -x ELSE x

RECURSIVE GCD(_, _)
GCD(a, b) == IF b = 0 THEN a ELSE GCD(b, a % b)

\* The float n/d: lowest terms, positive denominator; x/0 is +-inf, 0/0 NaN.
Float(n, d) ==
    IF d = 0 THEN <<Sign(n), 0>>
    ELSE LET g == GCD(Abs(n), Abs(d))
         IN  <<Sign(d) * Sign(n) * (Abs(n) \div g), Abs(d) \div g>>

FloatOfInt(n) == <<n, 1>>

IsNull(x) == x = NaN

FloatAdd(x, y) == Float(x[1] * y[2] + y[1] * x[2], x[2] * y[2])

\* IEEE division, as numpy performs it: no exception, inf or NaN on a zero divisor.
FloatDiv(x, y) == Float(x[1] * y[2], x[2] * y[1])

\* x <= y; false as soon as one side is NaN.
FloatLE(x, y) ==
    /\ ~IsNull(x)
    /\ ~IsNull(y)
    /\ IF x[2] = 0 /\ y[2] = 0 THEN x[1] <= y[1]
       ELSE IF x[2] = 0 THEN x[1] < 0
       ELSE IF y[2] = 0 THEN y[1] > 0
       ELSE x[1] * y[2] <= y[1] * x[2]

-----------------------------------------------------------------------------
\* Text

Digits == {"0", "1", "2", "3", "4", "5", "6", "7", "8", "9"}

DigitVal(c) ==
    CASE c = "0" -> 0 [] c = "1" -> 1 [] c = "2" -> 2 [] c = "3" -> 3
      [] c = "4" -> 4 [] c = "5" -> 5 [] c = "6" -> 6 [] c = "7" -> 7
      [] c = "8" -> 8 [] c = "9" -> 9

\* int() of a text of decimal digits.
RECURSIVE ParseInt(_)
ParseInt(s) ==
    IF s = <<>> THEN 0
    ELSE 10 * ParseInt(SubSeq(s, 1, Len(s) - 1)) + DigitVal(s[Len(s)])

-----------------------------------------------------------------------------
\* The uploaded table

rename_keys ==
    <<"Year", "Births in Clinic 1", "Deaths in Clinic 1",
      "Births in Clinic 2", "Deaths in Clinic 2">>

rename_map ==
    [c \in {rename_keys[i] : i \in 1..Len(rename_keys)} |->
        CASE c = "Year" -> "year_label"
          [] c = "Births in Clinic 1" -> "births_clinic1"
          [] c = "Deaths in Clinic 1" -> "deaths_clinic1"
          [] c = "Births in Clinic 2" -> "births_clinic2"
          [] c = "Deaths in Clinic 2" -> "deaths_clinic2"]

num_cols == <<"births_clinic1", "deaths_clinic1", "births_clinic2", "deaths_clinic2">>

\* The columns a sheet may carry: the five of the spreadsheet and one more.
AllColumns == DOMAIN rename_map \cup {"Notes"}

SheetRow(y, b1, d1, b2, d2) ==
    [c \in AllColumns |->
        CASE c = "Year" -> y
          [] c = "Births in Clinic 1" -> b1
          [] c = "Deaths in Clinic 1" -> d1
          [] c = "Births in Clinic 2" -> b2
          [] c = "Deaths in Clinic 2" -> d2
          [] c = "Notes" -> <<"o", "k">>]

\* The rows the sheets are made of.
SheetRows ==
    { SheetRow(<<"1", "8", "4", "6">>,
               <<"1", "0", "0">>, <<"5">>, <<"9", "0">>, <<"1", "0">>),
      SheetRow(<<"1", "8", "4", "7", " ", "B">>,
               <<"1", "0">>, <<"1">>, <<"2", "0">>, <<"4">>),
      SheetRow(<<"1", "8", "4", "7", " ", "A">>,
               <<"3", "0">>, <<"9">>, <<"2", "0">>, <<"2">>),
      SheetRow(<<"1", "8", "4", "8">>,
               <<"0">>, <<"1">>, <<"0">>, <<"0">>),
      SheetRow(<<"n", "/", "a">>,
               <<"7">>, <<"1">>, <<"7">>, <<"1">>),
      SheetRow(<<"1", "8", "4", "8">>,
               <<"N", "/", "A">>, <<"2">>, <<"4", "0">>, <<>>),
      SheetRow(<<"4", "7", "-", "1", "8", "4", "6", "/", "1", "8", "4", "8">>,
               <<"2", "0">>, <<"1">>, <<"1", "0">>, <<"-", "2">>) }

Restrict(f, S) == [c \in S |-> f[c]]

RECURSIVE SeqsUpTo(_, _)
SeqsUpTo(S, n) ==
    IF n = 0 THEN {<<>>}
    ELSE LET shorter == SeqsUpTo(S, n - 1)
         IN  shorter \cup {Append(s, x) : s \in {t \in shorter : Len(t) = n - 1}, x \in S}

\* The table pd.read_csv hands to load_data for a sheet t that carries the
\* columns cols: the column names and the rows in file order, each row a cell
\* text per column.
Table(cols, t) ==
    [columns |-> cols, rows |-> [i \in 1..Len(t) |-> Restrict(t[i], cols)]]

-----------------------------------------------------------------------------
\* load_data

\* pd.read_csv: the rows with the RangeIndex 0, 1, ... attached.
read_csv(table) ==
    [i \in 1..Len(table.rows) |-> table.rows[i] @@ ("index" :> i - 1)]

\* A check that stops at the first absent column.
FirstMissingColumn(columns) ==
    LET m == SelectSeq(rename_keys, LAMBDA c : c \notin columns)
    IN  IF m = <<>> THEN <<>> ELSE <<Head(m)>>

\* missing = [c for c in rename_map.keys() if c not in df_local.columns]
MissingColumns(columns) == SelectSeq(rename_keys, LAMBDA c : c \notin columns)

RenameCol(c) == IF c \in DOMAIN rename_map THEN rename_map[c] ELSE c

\* df_local.rename(columns=rename_map), on one row
RenameRow(row) ==
    [n \in {RenameCol(c) : c \in DOMAIN row} |->
        row[CHOOSE c \in DOMAIN row : RenameCol(c) = n]]

\* re.search(r"\d{4}", s) from position i on: the leftmost match or <<>>.
RECURSIVE Search4Digits(_, _)
Search4Digits(s, i) ==
    IF i + 3 > Len(s) THEN <<>>
    ELSE IF \A j \in i..(i + 3) : s[j] \in Digits THEN SubSeq(s, i, i + 3)
    ELSE Search4Digits(s, i + 1)

\* The rightmost match instead of the leftmost.
RECURSIVE SearchLast4Digits(_, _)
SearchLast4Digits(s, i) ==
    IF i < 1 THEN <<>>
    ELSE IF \A j \in i..(i + 3) : s[j] \in Digits THEN SubSeq(s, i, i + 3)
    ELSE SearchLast4Digits(s, i - 1)

extract_last_year(x) ==
    LET m == SearchLast4Digits(x, Len(x) - 3)
    IN  IF m # <<>> THEN FloatOfInt(ParseInt(m)) ELSE NaN

extract_year(x) ==
    LET m == Search4Digits(x, 1)
    IN  IF m # <<>> THEN FloatOfInt(ParseInt(m)) ELSE NaN

\* pd.to_numeric(cell, errors="coerce") on a cell text
to_numeric(cell) ==
    LET neg  == cell # <<>> /\ cell[1] = "-"
        body == IF neg THEN Tail(cell) ELSE cell
    IN  IF body # <<>> /\ \A i \in 1..Len(body) : body[i] \in Digits
        THEN FloatOfInt(IF neg THEN -ParseInt(body) ELSE ParseInt(body))
        ELSE NaN

\* dropna(how="all"): only the rows that are null in every one of cols go.
DropNaAll(rows, cols) ==
    SelectSeq(rows, LAMBDA r : \E i \in 1..Len(cols) : ~IsNull(r[cols[i]]))

\* df.dropna(subset=cols): the rows with no null in any of cols, in order
DropNa(rows, cols) ==
    SelectSeq(rows, LAMBDA r : \A i \in 1..Len(cols) : ~IsNull(r[cols[i]]))

\* The rows left in file order.
Unsorted(rows) == {rows}

\* rows.sort_values("year"): the default quicksort is not stable, so every
\* arrangement of the rows with non-decreasing year is a possible outcome.
SortValues(rows) ==
    LET n     == Len(rows)
        perms == {p \in [1..n -> 1..n] : \A i, j \in 1..n : i # j => p[i] # p[j]}
    IN  { [i \in 1..n |-> rows[p[i]]] :
            p \in {q \in perms : \A i, j \in 1..n :
                      i < j => FloatLE(rows[q[i]].year, rows[q[j]].year)} }

WithYear(row) == row @@ ("year" :> extract_year(row.year_label))

Coerced(row) ==
    [c \in DOMAIN row |->
        IF \E i \in 1..Len(num_cols) : num_cols[i] = c THEN to_numeric(row[c]) ELSE row[c]]

WithRates(row) ==
    row @@ ("death_rate_c1" :> FloatDiv(row.deaths_clinic1, row.births_clinic1))
        @@ ("death_rate_c2" :> FloatDiv(row.deaths_clinic2, row.births_clinic2))

\* The frames load_data can return for a table that has the five columns.
LoadedFrames(table) ==
    LET raw     == read_csv(table)
        renamed == [i \in 1..Len(raw) |-> RenameRow(raw[i])]
        keyed   == DropNa([i \in 1..Len(renamed) |-> WithYear(renamed[i])], <<"year">>)
    IN  { LET kept == DropNa([i \in 1..Len(sorted) |-> Coerced(sorted[i])], num_cols)
          IN  [i \in 1..Len(kept) |-> WithRates(kept[i])]
          : sorted \in SortValues(keyed) }

\* df = load_data(uploaded) inside try/except: a ValueError that lists the
\* missing columns is shown and the script stops; otherwise df is the frame.
LoadData ==
    /\ pc = "load"
    /\ LET missing == MissingColumns(uploaded.columns)
       IN  \/ /\ missing # <<>>
              /\ error' = missing
              /\ pc' = "stopped"
              /\ df' = df
           \/ /\ missing = <<>>
              /\ df' \in LoadedFrames(uploaded)
              /\ pc' = "bounds"
              /\ error' = error
    /\ UNCHANGED <<uploaded, min_year, max_year, year_range, filtered,
                   births_c1, deaths_c1, rate_c1, births_c2, deaths_c2, rate_c2>>

-----------------------------------------------------------------------------
\* Year filter

\* Series.min(): nulls skipped, NaN for an empty column
ColMin(rows, col) ==
    LET vals == {rows[i][col] : i \in 1..Len(rows)} \ {NaN}
    IN  IF vals = {} THEN NaN
        ELSE CHOOSE v \in vals : \A w \in vals : FloatLE(v, w)

\* Series.max()
ColMax(rows, col) ==
    LET vals == {rows[i][col] : i \in 1..Len(rows)} \ {NaN}
    IN  IF vals = {} THEN NaN
        ELSE CHOOSE v \in vals : \A w \in vals : FloatLE(w, v)

\* int(x) is defined on finite floats only; it truncates towards zero.
IntDefined(x) == x[2] # 0

PyInt(x) == Sign(x[1]) * (Abs(x[1]) \div x[2])

\* min_year = int(df["year"].min()); max_year = int(df["year"].max())
\* int(NaN) raises ValueError outside any try block: the script crashes.
YearBounds ==
    /\ pc = "bounds"
    /\ LET lo == ColMin(df, "year")
           hi == ColMax(df, "year")
       IN  IF IntDefined(lo) /\ IntDefined(hi)
           THEN /\ min_year' = PyInt(lo)
                /\ max_year' = PyInt(hi)
                /\ pc' = "slider"
           ELSE /\ pc' = "crashed"
                /\ UNCHANGED <<min_year, max_year>>
    /\ UNCHANGED <<uploaded, error, df, year_range, filtered,
                   births_c1, deaths_c1, rate_c1, births_c2, deaths_c2, rate_c2>>

\* year_range = st.sidebar.slider(...): a pair within the bounds, the first
\* value not above the second; (min_year, max_year) is the default.
Slider ==
    /\ pc = "slider"
    /\ \E a, b \in min_year..max_year :
          /\ a <= b
          /\ year_range' = <<a, b>>
    /\ pc' = "filter"
    /\ UNCHANGED <<uploaded, error, df, min_year, max_year, filtered,
                   births_c1, deaths_c1, rate_c1, births_c2, deaths_c2, rate_c2>>

\* The range without its upper bound.
InRangeOpenEnd(row, start_year, end_year) ==
    /\ FloatLE(FloatOfInt(start_year), row.year)
    /\ FloatLE(row.year, FloatOfInt(end_year))
    /\ row.year # FloatOfInt(end_year)

\* The range without its lower bound.
InRangeOpenStart(row, start_year, end_year) ==
    /\ FloatLE(FloatOfInt(start_year), row.year)
    /\ row.year # FloatOfInt(start_year)
    /\ FloatLE(row.year, FloatOfInt(end_year))

\* (df["year"] >= start_year) & (df["year"] <= end_year)
InRange(row, start_year, end_year) ==
    /\ FloatLE(FloatOfInt(start_year), row.year)
    /\ FloatLE(row.year, FloatOfInt(end_year))

\* filtered = df[mask].copy()
Filter ==
    /\ pc = "filter"
    /\ filtered' = SelectSeq(df, LAMBDA r : InRange(r, year_range[1], year_range[2]))
    /\ pc' = "kpis"
    /\ UNCHANGED <<uploaded, error, df, min_year, max_year, year_range,
                   births_c1, deaths_c1, rate_c1, births_c2, deaths_c2, rate_c2>>

-----------------------------------------------------------------------------
\* KPIs

\* The division without the zero-births guard.
unguarded_rate(deaths, births) == FloatDiv(deaths, births)

\* The guard and the division with deaths and births exchanged.
swapped_rate(deaths, births) ==
    IF deaths # FloatOfInt(0) THEN FloatDiv(births, deaths) ELSE FloatOfInt(0)

\* (deaths / births) if births and births != 0 else 0.0
safe_rate(deaths, births) ==
    IF births # FloatOfInt(0) THEN FloatDiv(deaths, births) ELSE FloatOfInt(0)

\* float(rows[col].sum()): nulls skipped, 0 for an empty column
RECURSIVE ColSum(_, _)
ColSum(rows, col) ==
    IF rows = <<>> THEN FloatOfInt(0)
    ELSE IF IsNull(Head(rows)[col]) THEN ColSum(Tail(rows), col)
    ELSE FloatAdd(Head(rows)[col], ColSum(Tail(rows), col))

Kpis ==
    /\ pc = "kpis"
    /\ births_c1' = ColSum(filtered, "births_clinic1")
    /\ deaths_c1' = ColSum(filtered, "deaths_clinic1")
    /\ rate_c1' = safe_rate(deaths_c1', births_c1')
    /\ births_c2' = ColSum(filtered, "births_clinic2")
    /\ deaths_c2' = ColSum(filtered, "deaths_clinic2")
    /\ rate_c2' = safe_rate(deaths_c2', births_c2')
    /\ pc' = "done"
    /\ UNCHANGED <<uploaded, error, df, min_year, max_year, year_range, filtered>>

-----------------------------------------------------------------------------

Init ==
    /\ \E cols \in SUBSET AllColumns, t \in SeqsUpTo(SheetRows, MaxRows) :
          uploaded = Table(cols, t)
    /\ pc = "load"
    /\ error = <<>>
    /\ df = <<>>
    /\ min_year = 0
    /\ max_year = 0
    /\ year_range = <<0, 0>>
    /\ filtered = <<>>
    /\ births_c1 = FloatOfInt(0)
    /\ deaths_c1 = FloatOfInt(0)
    /\ rate_c1 = FloatOfInt(0)
    /\ births_c2 = FloatOfInt(0)
    /\ deaths_c2 = FloatOfInt(0)
    /\ rate_c2 = FloatOfInt(0)

Next == LoadData \/ YearBounds \/ Slider \/ Filter \/ Kpis

Spec == Init /\ [][Next]_vars

-----------------------------------------------------------------------------
\* Properties

\* The positions at which load_data has returned a frame.
Loaded == pc \in {"bounds", "crashed", "slider", "filter", "kpis", "done"}

Zero == FloatOfInt(0)

SeqRange(s) == {s[i] : i \in 1..Len(s)}

\* The text of the Year cell of the sheet row that frame row r comes from.
SheetYear(r) == uploaded.rows[r.index + 1]["Year"]

\* The text s has four consecutive digits at positions i..i+3.
HasRun(s, i) == i + 3 <= Len(s) /\ \A j \in 0..3 : s[i + j] \in Digits

HasKey(s) == \E i \in 1..Len(s) : HasRun(s, i)

FirstRun(s) == CHOOSE i \in 1..Len(s) : HasRun(s, i) /\ \A k \in 1..(i - 1) : ~HasRun(s, k)

RunValue(s, i) ==
    1000 * DigitVal(s[i]) + 100 * DigitVal(s[i + 1]) + 10 * DigitVal(s[i + 2])
        + DigitVal(s[i + 3])

\* The text is an optional minus sign followed by one or more digits.
IsNumberText(s) ==
    \E k \in 0..1 :
        /\ Len(s) > k
        /\ k = 1 => s[1] = "-"
        /\ \A i \in (k + 1)..Len(s) : s[i] \in Digits

\* Sheet row i (1-based) has a year and four numeric counts.
Complete(i) ==
    /\ HasKey(uploaded.rows[i]["Year"])
    /\ \A c \in DOMAIN rename_map \ {"Year"} : IsNumberText(uploaded.rows[i][c])

\* C1: in every record of the loaded Dataset and for each clinic the stored
\* death rate is deaths / births when births > 0 and is 0 (never NaN or
\* infinity) when births = 0, whatever the deaths.
C1_PerPeriodRate ==
    Loaded =>
        \A i \in 1..Len(df) :
            /\ df[i].births_clinic1[1] > 0 =>
                  df[i].death_rate_c1 = FloatDiv(df[i].deaths_clinic1, df[i].births_clinic1)
            /\ df[i].births_clinic1 = Zero => df[i].death_rate_c1 = Zero
            /\ df[i].births_clinic2[1] > 0 =>
                  df[i].death_rate_c2 = FloatDiv(df[i].deaths_clinic2, df[i].births_clinic2)
            /\ df[i].births_clinic2 = Zero => df[i].death_rate_c2 = Zero

\* C2: a table that has all five required columns never makes the run
\* load -> filter -> summarize fail, whatever its rows are, even when every
\* row is dropped.
C2_NoFailure ==
    MissingColumns(uploaded.columns) = <<>> => pc \notin {"stopped", "crashed"}

\* C3: when required columns are absent from the table the load fails once,
\* the error lists exactly the absent required columns (each once, none that
\* is present) and no Dataset is produced; the load fails this way in no
\* other case.
C3_SchemaError ==
    LET absent == DOMAIN rename_map \ uploaded.columns
    IN  /\ absent # {} =>
              /\ pc \in {"load", "stopped"}
              /\ df = <<>>
              /\ pc = "stopped" =>
                    /\ SeqRange(error) = absent
                    /\ Len(error) = Cardinality(absent)
        /\ pc = "stopped" => absent # {}

C3_Witness ==
    /\ pc = "stopped"
    /\ Len(error) >= 2
    /\ error[1] # "Year"
    /\ "Notes" \in uploaded.columns
    /\ uploaded.rows # <<>>

\* The indices of the Dataset records whose year lies in [a, b].
IndicesInRange(a, b) == {i \in 1..Len(df) : a <= df[i].year[1] /\ df[i].year[1] <= b}

RECURSIVE IndexSum(_, _)
IndexSum(I, col) ==
    IF I = {} THEN 0
    ELSE LET i == CHOOSE k \in I : TRUE
         IN  df[i][col][1] + IndexSum(I \ {i}, col)

\* C4: the totals of the summary are, for each clinic, the sums of births and
\* of deaths over exactly the Dataset records whose year is within the slider
\* range, both bounds included.
C4_TotalsOverRange ==
    pc = "done" =>
        LET I == IndicesInRange(year_range[1], year_range[2])
        IN  /\ births_c1 = FloatOfInt(IndexSum(I, "births_clinic1"))
            /\ deaths_c1 = FloatOfInt(IndexSum(I, "deaths_clinic1"))
            /\ births_c2 = FloatOfInt(IndexSum(I, "births_clinic2"))
            /\ deaths_c2 = FloatOfInt(IndexSum(I, "deaths_clinic2"))
            /\ Len(filtered) = Cardinality(I)
            /\ SeqRange(filtered) = {df[i] : i \in I}

C4_Witness ==
    /\ pc = "done"
    /\ Len(filtered) >= 2
    /\ Len(filtered) < Len(df)
    /\ year_range[1] < year_range[2]
    /\ \E i \in 1..Len(filtered) : filtered[i].year = FloatOfInt(year_range[1])
    /\ \E i \in 1..Len(filtered) : filtered[i].year = FloatOfInt(year_range[2])
    /\ births_c1[1] > 0

\* C5: summarizing an empty filtered subset gives total births 0, total
\* deaths 0 and rate 0 for both clinics.
C5_EmptySubset ==
    (pc = "done" /\ filtered = <<>>) =>
        /\ births_c1 = Zero /\ deaths_c1 = Zero /\ rate_c1 = Zero
        /\ births_c2 = Zero /\ deaths_c2 = Zero /\ rate_c2 = Zero

C5_Witness == pc = "done" /\ filtered = <<>> /\ df # <<>>

\* C6: the overall rate of each clinic is total deaths / total births when the
\* total births are positive and 0 when they are 0, even with deaths.
C6_PooledRate ==
    pc = "done" =>
        /\ births_c1[1] > 0 => rate_c1 = Float(deaths_c1[1], births_c1[1])
        /\ births_c1 = Zero => rate_c1 = Zero
        /\ births_c2[1] > 0 => rate_c2 = Float(deaths_c2[1], births_c2[1])
        /\ births_c2 = Zero => rate_c2 = Zero

\* The mean of the per-period rates of the filtered records.
MeanRate(col) == FloatDiv(ColSum(filtered, col), FloatOfInt(Len(filtered)))

\* Two or more periods with births in each, whose pooled rate differs from
\* the mean of their rates.
C6_Witness ==
    /\ pc = "done"
    /\ Len(filtered) >= 2
    /\ \A i \in 1..Len(filtered) : filtered[i].births_clinic1[1] > 0
    /\ deaths_c1[1] > 0
    /\ rate_c1 # MeanRate("death_rate_c1")
    /\ rate_c1 = Float(deaths_c1[1], births_c1[1])

\* C7: with the slider at (minimum year, maximum year) the filter returns
\* every record of the Dataset, in the same order, unchanged.
C7_FullRange ==
    (pc \in {"kpis", "done"} /\ year_range = <<min_year, max_year>>) => filtered = df

C7_Witness ==
    /\ pc = "kpis"
    /\ year_range = <<min_year, max_year>>
    /\ min_year < max_year
    /\ Len(filtered) >= 3

\* C8: the Dataset holds exactly the sheet rows that have a year and four
\* numeric counts, each once; no record has a null count.
C8_CompleteRowsOnly ==
    Loaded =>
        /\ {df[i].index : i \in 1..Len(df)}
              = {k - 1 : k \in {i \in 1..Len(uploaded.rows) : Complete(i)}}
        /\ \A i, j \in 1..Len(df) : i # j => df[i].index # df[j].index
        /\ \A i \in 1..Len(df) : \A c \in SeqRange(num_cols) : ~IsNull(df[i][c])

C8_Witness ==
    /\ Loaded
    /\ Len(df) >= 1
    /\ Len(df) < Len(uploaded.rows)
    /\ \E i \in 1..Len(uploaded.rows) :
          /\ HasKey(uploaded.rows[i]["Year"])
          /\ ~IsNumberText(uploaded.rows[i]["Deaths in Clinic 2"])
          /\ IsNumberText(uploaded.rows[i]["Deaths in Clinic 1"])

\* C9 as stated: the Dataset is strictly increasing by year, so no two
\* records share a year.
C9_StrictlyIncreasing ==
    Loaded => \A i, j \in 1..Len(df) : i < j => df[i].year[1] < df[j].year[1]

\* C9 amended: the Dataset is ordered by year, non-decreasing; rows whose
\* labels share a year are all kept.
C9_NonDecreasing ==
    Loaded =>
        /\ \A i, j \in 1..Len(df) : i < j => df[i].year[1] <= df[j].year[1]
        /\ \A k \in 1..Len(uploaded.rows) :
              Complete(k) => \E i \in 1..Len(df) : df[i].index = k - 1

C9_Witness ==
    /\ Loaded
    /\ \E i, j \in 1..Len(df) :
          /\ i < j
          /\ df[i].year = df[j].year
          /\ df[i].year_label # df[j].year_label
    /\ \E i, j \in 1..Len(df) : i < j /\ df[i].index > df[j].index

\* C10: the year of every record is the integer value of the first run of
\* four consecutive digits of its Year text, the record keeps that text
\* verbatim as its label, and a row whose Year text has no such run is left
\* out while load_data still returns.
C10_PeriodKey ==
    /\ Loaded =>
          /\ \A i \in 1..Len(df) :
                LET text == SheetYear(df[i])
                IN  /\ HasKey(text)
                    /\ df[i].year = FloatOfInt(RunValue(text, FirstRun(text)))
                    /\ df[i].year_label = text
          /\ \A k \in 1..Len(uploaded.rows) :
                ~HasKey(uploaded.rows[k]["Year"]) =>
                    \A i \in 1..Len(df) : df[i].index # k - 1
    /\ (pc # "load" /\ MissingColumns(uploaded.columns) = <<>>) => Loaded

C10_Witness ==
    /\ Loaded
    /\ \E i \in 1..Len(df) :
          /\ FirstRun(df[i].year_label) > 1
          /\ HasRun(df[i].year_label, FirstRun(df[i].year_label) + 5)
    /\ \E i \in 1..Len(df) : Len(df[i].year_label) > 4 /\ FirstRun(df[i].year_label) = 1
    /\ \E k \in 1..Len(uploaded.rows) : ~HasKey(uploaded.rows[k]["Year"])

====
